---------------------------- MODULE Spec2Model ----------------------------
(***************************************************************************)
(* Model of LogarithmicOperator (src/src/operators/logarithmic.h): the     *)
(* parameter mapping, setParameters, the CPU loop of process, graph, map   *)
(* and the fragment stage of the embedded shader.                          *)
(*                                                                         *)
(* Number representation.                                                  *)
(*  - Pixel arithmetic (colours, luminances, Ld, gamma) is `float' in the  *)
(*    source.  Here a finite non-negative float is an integer count of     *)
(*    millionths (Unit = 1.0); NaN and +Inf are the two negative markers   *)
(*    below.  Products and quotients are rounded down to a millionth.      *)
(*    std::log10 and std::pow are evaluated by a binary fixed-point        *)
(*    logarithm and exponential (about five decimal digits).               *)
(*  - *progress and delta are modelled as IEEE binary32 values with        *)
(*    round-to-nearest-even, because process accumulates delta W*H times   *)
(*    and the accumulated rounding is what a poller observes.              *)
(***************************************************************************)
EXTENDS Integers, Sequences, FiniteSets, TLC

\* 1.0f in millionths.
Unit == 1000 * 1000

NaN == 0 - 1
Inf == 0 - 2

IsNaN(x) == x = NaN
IsInf(x) == x = Inf
IsFinite(x) == x >= 0

RECURSIVE Pow2(_)
Pow2(n) == IF n = 0 THEN 1 ELSE 2 * Pow2(n - 1)

\* The largest int.
IntMax == Pow2(30) + (Pow2(30) - 1)

\* How many bits of b a step of MulDivRem takes, so that no step overflows.
Radix(c) ==
    IF c <= IntMax \div 511 THEN 256
    ELSE IF c <= IntMax \div 31 THEN 16
    ELSE 2

\* <<quotient, remainder>> of a*b by c for a, b >= 0 and c > 0: a*b itself
\* where it fits an int, else b is taken Radix(c) at a time.
MulDivRem[a \in Nat, b \in Nat, c \in Nat] ==
    IF a = 0 \/ b <= IntMax \div a THEN <<(a * b) \div c, (a * b) % c>>
    ELSE LET R  == Radix(c)
             h  == MulDivRem[a, b \div R, c]
             r2 == R * h[2] + (b % R) * (a % c)
         IN  <<R * h[1] + (b % R) * (a \div c) + (r2 \div c), r2 % c>>

MulDiv(a, b, c) == MulDivRem[a, b, c][1]

\* float operator*
Mul(a, b) ==
    IF IsNaN(a) \/ IsNaN(b) THEN NaN
    ELSE IF IsInf(a) \/ IsInf(b)
         THEN (IF a = 0 \/ b = 0 THEN NaN ELSE Inf)
    ELSE MulDiv(a, b, Unit)

\* float operator/ (IEEE: x/0 is Inf, 0/0 and Inf/Inf are NaN)
Div(a, b) ==
    IF IsNaN(a) \/ IsNaN(b) THEN NaN
    ELSE IF IsInf(a) THEN (IF IsInf(b) THEN NaN ELSE Inf)
    ELSE IF IsInf(b) THEN 0
    ELSE IF b = 0 THEN (IF a = 0 THEN NaN ELSE Inf)
    ELSE MulDiv(a, Unit, b)

\* float operator+
Add(a, b) ==
    IF IsNaN(a) \/ IsNaN(b) THEN NaN
    ELSE IF IsInf(a) \/ IsInf(b) THEN Inf
    ELSE a + b

\* 2^(-2^-k) in millionths, k = 1 .. LogBits.
HalfPowers ==
    <<707107, 840896, 917004, 957603, 978572, 989228, 994599, 997296, 998647,
      999323, 999662, 999831, 999915, 999958, 999979, 999989, 999995, 999997,
      999999, 999999>>

\* Number of fractional bits the logarithm and the exponential work with.
LogBits == Len(HalfPowers)

\* x > 0 scaled into [Unit, 2*Unit): <<mantissa, binary exponent>>.
Normalize[x \in Nat, e \in Int] ==
    IF x >= 2 * Unit THEN Normalize[x \div 2, e + 1]
    ELSE IF x < Unit THEN Normalize[2 * x, e - 1]
    ELSE <<x, e>>

\* Fraction of log2(x), x in [Unit, 2*Unit), in units of 2^-LogBits.
Log2Frac[x \in Nat, k \in Nat, acc \in Nat] ==
    IF k = 0 THEN acc
    ELSE LET y == MulDiv(x, x, Unit)
         IN  IF y >= 2 * Unit
             THEN Log2Frac[y \div 2, k - 1, 2 * acc + 1]
             ELSE Log2Frac[y, k - 1, 2 * acc]

\* log2(x) in millionths for finite x > 0 (negative below 1.0).
Log2(x) ==
    LET n == Normalize[x, 0]
    IN  n[2] * Unit + MulDiv(Log2Frac[n[1], LogBits, 0], Unit, Pow2(LogBits))

\* ln(2) in millionths.
Ln2 == 693147

\* Natural logarithm (GLSL log, std::log) on [1, +Inf]; NaN stays NaN.
Ln(x) ==
    IF IsNaN(x) THEN NaN
    ELSE IF IsInf(x) THEN Inf
    ELSE MulDiv(Log2(x), Ln2, Unit)

\* std::log10 on [1, +Inf], evaluated as ln(x)/ln(10).
Ln10 == Ln(10 * Unit)

Log10(x) == Div(Ln(x), Ln10)

\* r * 2^(-f / 2^LogBits), the bits of f taken from the least significant.
Exp2Frac[f \in Nat, k \in Nat, r \in Nat] ==
    IF k = 0 THEN r
    ELSE Exp2Frac[f \div 2, k - 1,
                  IF f % 2 = 1 THEN MulDiv(r, HalfPowers[k], Unit) ELSE r]

\* 2^(-t) in millionths for finite t >= 0 (millionths).
Exp2Neg(t) ==
    LET n == t \div Unit
        f == MulDiv(t % Unit, Pow2(LogBits), Unit)
    IN  IF n > 30 THEN 0 ELSE Exp2Frac[f, LogBits, Unit] \div Pow2(n)

\* std::pow(x, y) for x in [0, 1] and y in [0, +Inf].
PowBelowOne(x, y) ==
    IF y = 0 \/ x = Unit THEN Unit
    ELSE IF x = 0 THEN 0
    ELSE IF IsInf(y) THEN 0
    ELSE Exp2Neg(MulDiv(y, 0 - Log2(x), Unit))

\* std::pow(x, y) (GLSL pow) for x in [0, +Inf] or NaN and y in [0, +Inf].
Pow(x, y) ==
    IF IsNaN(x) \/ IsNaN(y) THEN NaN
    ELSE IF IsInf(x) THEN (IF y = 0 THEN Unit ELSE Inf)
    ELSE IF x <= Unit THEN PowBelowOne(x, y)
    ELSE Div(Unit, PowBelowOne(Div(Unit, x), y))

(***************************************************************************)
(* IEEE binary32 for *progress and delta: 0 is <<0, 0>>, a positive normal *)
(* value m * 2^e is <<m, e>> with 2^23 <= m < 2^24, +Inf is F32Inf.        *)
(***************************************************************************)
F32Zero == <<0, 0>>
F32Inf == <<0 - 1, 0>>
F32One == <<Pow2(23), 0 - 23>>

\* <<m, e>> with m in [2^23, 2^24] renormalised after a rounding carry.
F32Carry(m, e) == IF m = Pow2(24) THEN <<Pow2(23), e + 1>> ELSE <<m, e>>

\* Round-to-nearest-even of (m + rem/den) * 2^e, 2^23 <= m < 2^24, rem < den.
F32Round(m, rem, den, e) ==
    IF 2 * rem > den \/ (2 * rem = den /\ m % 2 = 1)
    THEN F32Carry(m + 1, e)
    ELSE <<m, e>>

\* floor(log2(n)) for n >= 1.
FloorLog2[n \in Nat] == IF n < 2 THEN 0 ELSE 1 + FloorLog2[n \div 2]

\* 1.f / (float) n for an int n with 0 <= n < 2^24 (the conversion is exact).
F32Recip(n) ==
    IF n = 0 THEN F32Inf
    ELSE LET k  == FloorLog2[n]
             qr == MulDivRem[Pow2(24), Pow2(k), n]
         IN  IF n = Pow2(k) THEN <<Pow2(23), 0 - (23 + k)>>
             ELSE F32Round(qr[1], qr[2], n, 0 - (24 + k))

\* a + b for a, b >= 0 finite, the exponent of a not below that of b.
F32AddOrdered(a, b) ==
    LET sh  == a[2] - b[2]
        hi  == b[1] \div Pow2(sh)
        lo  == b[1] % Pow2(sh)
        sum == a[1] + hi
    IN  IF sh >= 25 THEN a
        ELSE IF sum < Pow2(24) THEN F32Round(sum, lo, Pow2(sh), a[2])
        ELSE F32Round(sum \div 2, (sum % 2) * Pow2(sh) + lo, Pow2(sh + 1), a[2] + 1)

\* float operator+ on binary32 (the `*progress += delta' of process).
F32Add(a, b) ==
    IF a = F32Inf \/ b = F32Inf THEN F32Inf
    ELSE IF a = F32Zero THEN b
    ELSE IF b = F32Zero THEN a
    ELSE IF a[2] >= b[2] THEN F32AddOrdered(a, b)
    ELSE F32AddOrdered(b, a)

\* a < b on binary32 values (a, b finite, >= 0).
F32Less(a, b) ==
    IF a = F32Zero THEN b # F32Zero
    ELSE IF b = F32Zero THEN FALSE
    ELSE a[2] < b[2] \/ (a[2] = b[2] /\ a[1] < b[1])

\* A finite binary32 value below 2^7 in millionths, rounded down.
F32Micro(a) ==
    IF a = F32Zero THEN 0
    ELSE LET d == 0 - a[2]
         IN  IF d <= 29 THEN MulDiv(a[1], Unit, Pow2(d))
             ELSE IF d >= 59 THEN 0
             ELSE MulDiv(a[1], Unit, Pow2(29)) \div Pow2(d - 29)

(***************************************************************************)
(* Colour samples and images (the read interface the operator consumes).   *)
(***************************************************************************)
\* Color3f::getLuminance
Luminance(c) ==
    Add(Add(Mul(212671, c[1]), Mul(715160, c[2])), Mul(72169, c[3]))

\* Largest whole exposure a call is made with.
MaxExposure == 2

\* Largest whole luminance graph is sampled at.
MaxGraphValue == 1

\* Pixels of the one large image (a single row).
BigWidth == 8194

Rgb(r, g, b) == <<r * Unit, g * Unit, b * Unit>>

Max(a, b) == IF a >= b THEN a ELSE b

\* Image::getMaximumLuminance over rows of pixels.
MaxOfRow[row \in Seq(Seq(Int))] ==
    IF row = <<>> THEN 0 ELSE Max(Luminance(Head(row)), MaxOfRow[Tail(row)])

MaxOfRows[rows \in Seq(Seq(Seq(Int)))] ==
    IF rows = <<>> THEN 0 ELSE Max(MaxOfRow[Head(rows)], MaxOfRows[Tail(rows)])

MakeImage(w, h, rows) ==
    [W |-> w, H |-> h, rows |-> rows, maxLum |-> MaxOfRows[rows]]

Images ==
    [pair   |-> MakeImage(2, 1, << <<Rgb(1, 1, 1), Rgb(2, 2, 2)>> >>),
     grid   |-> MakeImage(3, 2, << <<Rgb(2, 1, 1), Rgb(1, 2, 1), Rgb(1, 1, 2)>>,
                                   <<Rgb(1, 1, 1), Rgb(3, 0, 1), Rgb(0, 0, 0)>> >>),
     emptyW |-> MakeImage(0, 2, << <<>>, <<>> >>),
     emptyH |-> MakeImage(2, 0, <<>>),
     big    |-> [W |-> BigWidth, H |-> 1, rows |-> <<>>, maxLum |-> Unit]]

SmallImages == {"pair", "grid", "emptyW", "emptyH"}
BigImages == {"big"}

\* Image::getSize
Width(img) == Images[img].W
Height(img) == Images[img].H

\* Image::ref(row, column); every pixel of the large image is (1, 1, 1).
Ref(img, row, col) ==
    IF img \in BigImages THEN Rgb(1, 1, 1) ELSE Images[img].rows[row + 1][col + 1]

\* Image::getMaximumLuminance
GetMaximumLuminance(img) == Images[img].maxLum

Exposures == {e * Unit : e \in 1 .. MaxExposure}
GraphValues == {v * Unit : v \in 0 .. MaxGraphValue}

(***************************************************************************)
(* Parameters.                                                             *)
(***************************************************************************)
\* Parameter(value, min, max, uniform, description)
Parameter(value, min, max, uniform) ==
    [value |-> value, min |-> min, max |-> max, uniform |-> uniform,
     constant |-> FALSE]

\* Parameter(value, uniform): the derived, read-only form
ConstantParameter(value, uniform) ==
    [value |-> value, uniform |-> uniform, constant |-> TRUE]

\* The mapping the constructor leaves behind.
Constructed ==
    [k \in {"Gamma", "p", "q"} |->
        CASE k = "Gamma" -> Parameter(2200000, 0, 10 * Unit, "gamma")
          [] k = "p"     -> Parameter(Unit, 0, 20 * Unit, "p")
          [] k = "q"     -> Parameter(Unit, 0, 20 * Unit, "q")]

(***************************************************************************)
(* The formula: map, and the per-pixel colour pipeline of process.         *)
(***************************************************************************)
\* LogarithmicOperator::map
map(Lw, exposure, Lmax, p, q) ==
    LET L == Mul(exposure, Lw)
    IN  Div(Log10(Add(Unit, Mul(p, L))),
            Log10(Add(Unit, Mul(Mul(q, exposure), Lmax))))

\* clamp(value, 0.f, 1.f) and, per channel, Color3f::clampedValue
Clamp01(x) ==
    IF IsNaN(x) THEN NaN
    ELSE IF IsInf(x) THEN Unit
    ELSE IF x > Unit THEN Unit
    ELSE x

\* per channel, Color3f::gammaCorrect(gamma): value^(1/gamma)
GammaCorrect(x, gamma) == Pow(x, Div(Unit, gamma))

\* Ld * color / Lw, one channel
Scale(Ld, channel, Lw) == Div(Mul(Ld, channel), Lw)

\* Lines 93-98 of process: the colour c of one pixel before quantization.
ProcessColor(color, exposure, gamma, Lmax, p, q) ==
    LET Lw == Luminance(color)
        Ld == map(Lw, exposure, Lmax, p, q)
    IN  [ch \in 1 .. 3 |-> GammaCorrect(Clamp01(Scale(Ld, color[ch], Lw)), gamma)]

\* Mutant of Quantize: rounds to nearest instead of truncating.
Quantize_round(x) ==
    IF IsNaN(x) THEN {0, 255}
    ELSE {(255 * x + Unit \div 2) \div Unit}

\* What a conversion of NaN to uint8_t may store (the conversion is undefined).
UndefinedBytes == {0, 255}

\* (uint8_t) (255.f * x): the bytes the conversion can produce.
Quantize(x) ==
    IF IsNaN(x) THEN UndefinedBytes
    ELSE {(255 * x) \div Unit}

\* The byte triples one pixel can be written as.
PixelBytes(c) ==
    {<<r, g, b>> : r \in Quantize(c[1]), g \in Quantize(c[2]), b \in Quantize(c[3])}

(***************************************************************************)
(* The destination buffer: a log of the three-byte writes, a run of equal  *)
(* adjacent pixels kept as one entry.                                      *)
(***************************************************************************)
Write(m, offset, rgb) ==
    IF /\ m # <<>>
       /\ m[Len(m)].rgb = rgb
       /\ m[Len(m)].start + 3 * m[Len(m)].n = offset
    THEN [m EXCEPT ![Len(m)].n = @ + 1]
    ELSE Append(m, [start |-> offset, n |-> 1, rgb |-> rgb])

Covers(entry, k) == entry.start <= k /\ k < entry.start + 3 * entry.n

\* How many times offset k has been written.
WriteCount(m, k) == Cardinality({x \in 1 .. Len(m) : Covers(m[x], k)})

\* The byte at offset k (the last write wins); -1 where nothing was written.
ByteAt(m, k) ==
    LET hits == {x \in 1 .. Len(m) : Covers(m[x], k)}
    IN  IF hits = {} THEN 0 - 1
        ELSE LET x == CHOOSE y \in hits : \A z \in hits : z <= y
             IN  m[x].rgb[((k - m[x].start) % 3) + 1]

\* One past the highest offset written.
HighWater(m) ==
    LET ends == {m[x].start + 3 * m[x].n : x \in 1 .. Len(m)}
    IN  IF ends = {} THEN 0 ELSE CHOOSE y \in ends : \A z \in ends : z <= y

(***************************************************************************)
(* graph                                                                   *)
(***************************************************************************)
NoCall == [status |-> "none"]

Keys == <<"Gamma", "Lmax", "p", "q">>

\* The first key of the lookups (in source order) that params lacks, or "".
FirstMissing(params) ==
    LET missing == {x \in 1 .. Len(Keys) : Keys[x] \notin DOMAIN params}
    IN  IF missing = {} THEN ""
        ELSE Keys[CHOOSE y \in missing : \A z \in missing : y <= z]

\* Mutant of GraphValue: the clamp is left out.
GraphValue_noClamp(value, gamma, Lmax, p, q) ==
    Pow(map(value, Unit, Lmax, p, q), Div(Unit, gamma))

\* LogarithmicOperator::graph, value after lines 114-116
GraphValue(value, gamma, Lmax, p, q) ==
    Pow(Clamp01(map(value, Unit, Lmax, p, q)), Div(Unit, gamma))

\* LogarithmicOperator::graph on the mapping params: the call's outcome.
graph(params, value) ==
    IF FirstMissing(params) # ""
    THEN [status |-> "out_of_range", key |-> FirstMissing(params), value |-> value]
    ELSE [status |-> "ok", value |-> value,
          gamma |-> params["Gamma"].value, Lmax |-> params["Lmax"].value,
          p |-> params["p"].value, q |-> params["q"].value,
          result |-> GraphValue(value, params["Gamma"].value, params["Lmax"].value,
                                params["p"].value, params["q"].value)]

(***************************************************************************)
(* The fragment stage of the embedded shader (lines 37-73).                *)
(***************************************************************************)
\* Mutant of ShaderLuminance: the Rec. 601 weights.
ShaderLuminance_rec601(color) ==
    Add(Add(Mul(299000, color[1]), Mul(587000, color[2])), Mul(114000, color[3]))

\* float getLuminance(vec4 color)
ShaderLuminance(color) ==
    Add(Add(Mul(212671, color[1]), Mul(715160, color[2])), Mul(72169, color[3]))

\* vec4 adjustColor(vec4 color, float L, float Ld), the r, g, b components
AdjustColor(color, L, Ld) == [ch \in 1 .. 3 |-> Div(Mul(Ld, color[ch]), L)]

\* vec4 clampedValue(vec4 color), the r, g, b components
ShaderClampedValue(color) == [ch \in 1 .. 3 |-> Clamp01(color[ch])]

\* vec4 gammaCorrect(vec4 color), the r, g, b components
ShaderGammaCorrect(color, gammaU) ==
    [ch \in 1 .. 3 |-> Pow(color[ch], Div(Unit, gammaU))]

\* void main(): out_color.rgb for the texel sampled at uv
FragmentMain(texel, exposureU, gammaU, LmaxU, pU, qU) ==
    LET color == [ch \in 1 .. 3 |-> Mul(exposureU, texel[ch])]
        L     == ShaderLuminance(color)
        Ld    == Div(Div(Ln(Add(Unit, Mul(pU, L))), Ln10),
                     Div(Ln(Add(Unit, Mul(Mul(qU, exposureU), LmaxU))), Ln10))
    IN  ShaderGammaCorrect(ShaderClampedValue(AdjustColor(color, L, Ld)), gammaU)

(***************************************************************************)
(* State.                                                                  *)
(***************************************************************************)
VARIABLES
    parameters,   \* TonemapOperator::parameters
    lastSet,      \* the image of the most recent setParameters call ("none")
    beganWith,    \* history: lastSet as it was when the process call began,
                  \* recorded in behaviours that start from InitTracked
    pc,           \* where the process call stands
    image,        \* process: the image argument
    exposure,     \* process: the exposure argument
    progress,     \* process: *progress (binary32)
    delta,        \* process: delta (binary32)
    gamma, Lmax, p, q,   \* process: the four locals read from the mapping
    i, j,         \* process: the loop counters
    dst,          \* process: dst, as an offset from the start of the buffer
    mem,          \* the caller's buffer: the writes made through dst
    thrown,       \* the key whose lookup threw std::out_of_range, or ""
    graphCall,    \* the outcome of the most recent graph call
    gpuCall       \* the most recent fragment: its uniforms, texel and out_color

vars == <<parameters, lastSet, beganWith, pc, image, exposure, progress, delta,
          gamma, Lmax, p, q, i, j, dst, mem, thrown, graphCall, gpuCall>>

procVars == <<beganWith, pc, image, exposure, progress, delta, gamma, Lmax, p, q,
              i, j, dst, mem, thrown>>

\* The state after the constructor (lines 16-19), no call made yet.
Init ==
    /\ parameters = Constructed
    /\ lastSet = "none"
    /\ beganWith = "untracked"
    /\ pc = "idle"
    /\ image = "none"
    /\ exposure = 0
    /\ progress = F32Zero
    /\ delta = F32Zero
    /\ gamma = 0 /\ Lmax = 0 /\ p = 0 /\ q = 0
    /\ i = 0 /\ j = 0
    /\ dst = 0
    /\ mem = <<>>
    /\ thrown = ""
    /\ graphCall = NoCall
    /\ gpuCall = NoCall

\* Mutant of SetParameters: an insert that keeps an entry already there.
SetParameters_keepFirst(img) ==
    /\ parameters' =
          [k \in DOMAIN parameters \cup {"Lmax"} |->
              IF k \in DOMAIN parameters THEN parameters[k]
              ELSE ConstantParameter(GetMaximumLuminance(img), "Lmax")]
    /\ lastSet' = img
    /\ UNCHANGED <<procVars, graphCall, gpuCall>>

\* Mutant of SetParameters: the value is stored under the key "p".
SetParameters_wrongKey(img) ==
    /\ parameters' =
          [parameters EXCEPT
              !["p"] = ConstantParameter(GetMaximumLuminance(img), "Lmax")]
    /\ lastSet' = img
    /\ UNCHANGED <<procVars, graphCall, gpuCall>>

\* LogarithmicOperator::setParameters (lines 77-79)
SetParameters(img) ==
    /\ parameters' =
          [k \in DOMAIN parameters \cup {"Lmax"} |->
              IF k = "Lmax"
              THEN ConstantParameter(GetMaximumLuminance(img), "Lmax")
              ELSE parameters[k]]
    /\ lastSet' = img
    /\ UNCHANGED <<procVars, graphCall, gpuCall>>

\* process, lines 81-84: the call, the size, *progress = 0 and delta.
ProcessBegin(img, e) ==
    /\ pc \in {"idle", "returned", "thrown"}
    /\ pc' = "at_Gamma"
    /\ beganWith' = IF beganWith = "untracked" THEN beganWith ELSE lastSet
    /\ image' = img
    /\ exposure' = e
    /\ progress' = F32Zero
    /\ delta' = F32Recip(Width(img) * Height(img))
    /\ gamma' = 0 /\ Lmax' = 0 /\ p' = 0 /\ q' = 0
    /\ i' = 0 /\ j' = 0
    /\ dst' = 0
    /\ mem' = <<>>
    /\ thrown' = ""
    /\ UNCHANGED <<parameters, lastSet, graphCall, gpuCall>>

KeyAt(at) ==
    CASE at = "at_Gamma" -> "Gamma"
      [] at = "at_Lmax"  -> "Lmax"
      [] at = "at_p"     -> "p"
      [] at = "at_q"     -> "q"

After(at) ==
    CASE at = "at_Gamma" -> "at_Lmax"
      [] at = "at_Lmax"  -> "at_p"
      [] at = "at_p"     -> "at_q"
      [] at = "at_q"     -> "loop"

\* Mutant of ProcessLookup: a missing key reads as 0 instead of throwing.
ProcessLookup_defaulting ==
    /\ pc \in {"at_Gamma", "at_Lmax", "at_p", "at_q"}
    /\ LET key   == KeyAt(pc)
           value == IF key \in DOMAIN parameters THEN parameters[key].value ELSE 0
       IN  /\ pc' = After(pc)
           /\ gamma' = IF key = "Gamma" THEN value ELSE gamma
           /\ Lmax' = IF key = "Lmax" THEN value ELSE Lmax
           /\ p' = IF key = "p" THEN value ELSE p
           /\ q' = IF key = "q" THEN value ELSE q
    /\ UNCHANGED <<parameters, lastSet, beganWith, image, exposure, progress,
                   delta, i, j, dst, mem, thrown, graphCall, gpuCall>>

\* process, lines 86-89: one parameters.at(key).value; a missing key throws.
ProcessLookup ==
    /\ pc \in {"at_Gamma", "at_Lmax", "at_p", "at_q"}
    /\ LET key == KeyAt(pc)
       IN  IF key \in DOMAIN parameters
           THEN /\ pc' = After(pc)
                /\ gamma' = IF key = "Gamma" THEN parameters[key].value ELSE gamma
                /\ Lmax' = IF key = "Lmax" THEN parameters[key].value ELSE Lmax
                /\ p' = IF key = "p" THEN parameters[key].value ELSE p
                /\ q' = IF key = "q" THEN parameters[key].value ELSE q
                /\ thrown' = thrown
           ELSE /\ pc' = "thrown"
                /\ thrown' = key
                /\ UNCHANGED <<gamma, Lmax, p, q>>
    /\ UNCHANGED <<parameters, lastSet, beganWith, image, exposure, progress, delta,
                   i, j, dst, mem, graphCall, gpuCall>>

\* Mutant of ProcessPixel: dst advances by 4, as for an RGBA buffer.
ProcessPixel_stride4 ==
    /\ pc = "loop"
    /\ i < Height(image)
    /\ j < Width(image)
    /\ \E bytes \in PixelBytes(ProcessColor(Ref(image, i, j), exposure,
                                            gamma, Lmax, p, q)) :
          mem' = Write(mem, dst, bytes)
    /\ dst' = dst + 4
    /\ progress' = F32Add(progress, delta)
    /\ j' = j + 1
    /\ UNCHANGED <<parameters, lastSet, beganWith, pc, image, exposure, delta,
                   gamma, Lmax, p, q, i, thrown, graphCall, gpuCall>>

\* Mutant of ProcessPixel: Lmax is looked up again for every pixel.
ProcessPixel_rereads ==
    /\ pc = "loop"
    /\ i < Height(image)
    /\ j < Width(image)
    /\ \E bytes \in PixelBytes(ProcessColor(Ref(image, i, j), exposure,
                                            gamma, parameters["Lmax"].value, p, q)) :
          mem' = Write(mem, dst, bytes)
    /\ dst' = dst + 3
    /\ progress' = F32Add(progress, delta)
    /\ j' = j + 1
    /\ UNCHANGED <<parameters, lastSet, beganWith, pc, image, exposure, delta,
                   gamma, Lmax, p, q, i, thrown, graphCall, gpuCall>>

\* process, lines 93-103: one pixel, its three bytes, dst += 3, the progress step.
ProcessPixel ==
    /\ pc = "loop"
    /\ i < Height(image)
    /\ j < Width(image)
    /\ \E bytes \in PixelBytes(ProcessColor(Ref(image, i, j), exposure,
                                            gamma, Lmax, p, q)) :
          mem' = Write(mem, dst, bytes)
    /\ dst' = dst + 3
    /\ progress' = F32Add(progress, delta)
    /\ j' = j + 1
    /\ UNCHANGED <<parameters, lastSet, beganWith, pc, image, exposure, delta,
                   gamma, Lmax, p, q, i, thrown, graphCall, gpuCall>>

\* process, lines 91-92: the inner loop is over, the outer one steps.
ProcessNextRow ==
    /\ pc = "loop"
    /\ i < Height(image)
    /\ j >= Width(image)
    /\ i' = i + 1
    /\ j' = 0
    /\ UNCHANGED <<parameters, lastSet, beganWith, pc, image, exposure, progress, delta,
                   gamma, Lmax, p, q, dst, mem, thrown, graphCall, gpuCall>>

\* Mutant of ProcessReturn: progress is set to 1.0 on the way out.
ProcessReturn_complete ==
    /\ pc = "loop"
    /\ i >= Height(image)
    /\ pc' = "returned"
    /\ progress' = F32One
    /\ UNCHANGED <<parameters, lastSet, beganWith, image, exposure, delta,
                   gamma, Lmax, p, q, i, j, dst, mem, thrown, graphCall, gpuCall>>

\* process, line 106: the outer loop is over, the call returns.
ProcessReturn ==
    /\ pc = "loop"
    /\ i >= Height(image)
    /\ pc' = "returned"
    /\ UNCHANGED <<parameters, lastSet, beganWith, image, exposure, progress, delta,
                   gamma, Lmax, p, q, i, j, dst, mem, thrown, graphCall, gpuCall>>

\* LogarithmicOperator::graph (lines 108-118), one call
Graph(value) ==
    /\ graphCall' = graph(parameters, value)
    /\ UNCHANGED <<parameters, lastSet, procVars, gpuCall>>

\* One fragment of a render of img: the uniforms are bound from the mapping
\* and the exposure, the texel is the pixel at (row, col).
ShaderMain(img, row, col, e) ==
    /\ FirstMissing(parameters) = ""
    /\ gpuCall' =
          [status |-> "ok", texel |-> Ref(img, row, col), exposure |-> e,
           gamma |-> parameters["Gamma"].value, Lmax |-> parameters["Lmax"].value,
           p |-> parameters["p"].value, q |-> parameters["q"].value,
           out |-> FragmentMain(Ref(img, row, col), e,
                                parameters["Gamma"].value, parameters["Lmax"].value,
                                parameters["p"].value, parameters["q"].value)]
    /\ UNCHANGED <<parameters, lastSet, procVars, graphCall>>

Next ==
    \/ \E img \in SmallImages : SetParameters(img)
    \/ \E img \in SmallImages, e \in Exposures : ProcessBegin(img, e)
    \/ ProcessLookup
    \/ ProcessPixel
    \/ ProcessNextRow
    \/ ProcessReturn
    \/ \E v \in GraphValues : Graph(v)

Spec == Init /\ [][Next]_vars

(***************************************************************************)
(* setParameters on one execution context, process on another; first       *)
(* without, then with the history variable beganWith recorded.             *)
(***************************************************************************)
NextInterleave ==
    \/ \E img \in SmallImages : SetParameters(img)
    \/ \E img \in SmallImages, e \in Exposures : ProcessBegin(img, e)
    \/ ProcessLookup
    \/ ProcessPixel
    \/ ProcessNextRow
    \/ ProcessReturn

SpecProcess == Init /\ [][NextInterleave]_vars

InitTracked ==
    /\ parameters = Constructed
    /\ lastSet = "none"
    /\ beganWith = "none"
    /\ pc = "idle"
    /\ image = "none"
    /\ exposure = 0
    /\ progress = F32Zero
    /\ delta = F32Zero
    /\ gamma = 0 /\ Lmax = 0 /\ p = 0 /\ q = 0
    /\ i = 0 /\ j = 0
    /\ dst = 0
    /\ mem = <<>>
    /\ thrown = ""
    /\ graphCall = NoCall
    /\ gpuCall = NoCall

SpecInterleave == InitTracked /\ [][NextInterleave]_vars

(***************************************************************************)
(* One caller, one large image: the run of process that a poller of        *)
(* *progress watches.                                                      *)
(***************************************************************************)
NextProgress ==
    \/ \E img \in BigImages : SetParameters(img)
    \/ \E img \in BigImages : ProcessBegin(img, Unit)
    \/ ProcessLookup
    \/ ProcessPixel
    \/ ProcessNextRow
    \/ ProcessReturn

SpecProgress == Init /\ [][NextProgress]_vars

(***************************************************************************)
(* The formula over the ranges of the user-adjustable parameters: the      *)
(* operator after the host has moved the Gamma, p and q sliders.           *)
(***************************************************************************)
GammaValues == {0, Unit, 2200000}
ScaleValues == {0, Unit, 2 * Unit}

InitAdjusted ==
    /\ \E g \in GammaValues, pv \in ScaleValues, qv \in ScaleValues :
          parameters = [Constructed EXCEPT !["Gamma"].value = g,
                                           !["p"].value = pv,
                                           !["q"].value = qv]
    /\ lastSet = "none"
    /\ beganWith = "untracked"
    /\ pc = "idle"
    /\ image = "none"
    /\ exposure = 0
    /\ progress = F32Zero
    /\ delta = F32Zero
    /\ gamma = 0 /\ Lmax = 0 /\ p = 0 /\ q = 0
    /\ i = 0 /\ j = 0
    /\ dst = 0
    /\ mem = <<>>
    /\ thrown = ""
    /\ graphCall = NoCall
    /\ gpuCall = NoCall

NextGraph ==
    \/ \E img \in SmallImages : SetParameters(img)
    \/ \E v \in GraphValues : Graph(v)

SpecGraph == InitAdjusted /\ [][NextGraph]_vars

NextShader ==
    \/ \E img \in SmallImages : SetParameters(img)
    \/ \E img \in SmallImages, e \in Exposures :
          \E row \in 0 .. Height(img) - 1, col \in 0 .. Width(img) - 1 :
             ShaderMain(img, row, col, e)

SpecShader == InitAdjusted /\ [][NextShader]_vars
(***************************************************************************)
(* Properties.                                                             *)
(***************************************************************************)
Running == pc \in {"at_Gamma", "at_Lmax", "at_p", "at_q", "loop"}
PastLookups == pc \in {"loop", "returned"}

\* W*H of the image process was called with.
PixelCount == Width(image) * Height(image)

\* Pixels process has written so far, and the row and column of the n-th.
Written == dst \div 3
RowOf(n) == n \div Width(image)
ColOf(n) == n % Width(image)

\* The three bytes at pixel slot n of the buffer.
BytesAt(n) == <<ByteAt(mem, 3 * n), ByteAt(mem, 3 * n + 1), ByteAt(mem, 3 * n + 2)>>

Abs(x) == IF x < 0 THEN 0 - x ELSE x

------------------------------------------------------------------------------
C1_State ==
    /\ lastSet = "none" =>
          /\ "Lmax" \notin DOMAIN parameters
          /\ pc \notin {"at_p", "at_q", "loop", "returned"}
          /\ graphCall.status # "ok"
    /\ pc = "thrown" => thrown = "Lmax" /\ mem = <<>> /\ dst = 0
    /\ graphCall.status = "out_of_range" => graphCall.key = "Lmax"
    /\ lastSet # "none" => FirstMissing(parameters) = ""

C1_Step ==
    /\ (lastSet = "none" /\ pc = "at_Lmax" /\ pc' # pc) =>
          (pc' = "thrown" /\ thrown' = "Lmax" /\ mem' = <<>>)
    /\ (lastSet = "none" /\ lastSet' = "none" /\ graphCall' # graphCall) =>
          (graphCall'.status = "out_of_range" /\ graphCall'.key = "Lmax")
    /\ lastSet # "none" => lastSet' # "none"
    /\ (lastSet # "none" /\ pc # "thrown") => pc' # "thrown"
    /\ (lastSet # "none" /\ graphCall' # graphCall) => graphCall'.status = "ok"

\* C1: until the first setParameters call the mapping has no "Lmax", so a
\* process call throws at the lookup of "Lmax" (after that of "Gamma") with
\* no byte written to dst, and a graph call fails on "Lmax" too; from the
\* first setParameters call on all four keys are present in every state, no
\* lookup of process throws and every graph call succeeds.
C1_MissingLmaxUntilSet == []C1_State /\ [][C1_Step]_vars

\* A process call that threw on "Lmax", then setParameters, then a graph
\* call that succeeded.
C1_Witness ==
    /\ pc = "thrown" /\ thrown = "Lmax"
    /\ lastSet # "none"
    /\ graphCall.status = "ok"

------------------------------------------------------------------------------
C2_State ==
    lastSet # "none" =>
        /\ "Lmax" \in DOMAIN parameters
        /\ parameters["Lmax"].value = GetMaximumLuminance(lastSet)

C2_Step ==
    /\ (pc = "at_Lmax" /\ pc' = "at_p") => Lmax' = GetMaximumLuminance(lastSet)
    /\ (graphCall' # graphCall /\ graphCall'.status = "ok") =>
          graphCall'.Lmax = GetMaximumLuminance(lastSet')

\* C2: once setParameters has been called, the "Lmax" entry is the maximum
\* luminance of the image of the most recent call, and that is the value
\* the Lmax lookup of process and graph returns, whatever image process is
\* then called with.
C2_LmaxOfLatestSet == []C2_State /\ [][C2_Step]_vars

\* setParameters(pair), graph, setParameters(grid), then process(pair)
\* run to the end with the maximum luminance of grid.
C2_Witness ==
    /\ pc = "returned" /\ image = "pair"
    /\ lastSet = "grid"
    /\ Lmax = GetMaximumLuminance("grid")
    /\ Lmax # GetMaximumLuminance("pair")
    /\ graphCall.status = "ok"
    /\ graphCall.Lmax = GetMaximumLuminance("pair")

------------------------------------------------------------------------------
\* 1e-5, the floating tolerance of the testable properties.
ProgressTolerance == Unit \div 100000

\* C3: during a process call that got past the lookups, progress is below
\* 1.0 while a pixel is still to be written, and when the call returns all
\* W*H pixels have been written and progress is within tolerance of 1.0.
C3_ProgressContract ==
    (PastLookups /\ PixelCount > 0) =>
        /\ Written < PixelCount => F32Less(progress, F32One)
        /\ pc = "returned" =>
              /\ Written = PixelCount
              /\ Abs(F32Micro(progress) - Unit) <= ProgressTolerance

------------------------------------------------------------------------------
\* C4: process writes pixel (i, j) to offsets 3*(i*W + j) .. +2, in row-major
\* order: dst is always 3*(i*W + j), the offsets below dst have been written
\* exactly once and hold the bytes of their pixel, nothing at or beyond dst
\* (so nothing at or beyond 3*W*H) has been written, and on return dst is
\* 3*W*H.
C4_RowMajorWrites ==
    /\ HighWater(mem) <= dst
    /\ (pc \in {"at_Gamma", "at_Lmax", "at_p", "at_q", "thrown"}) => mem = <<>>
    /\ PastLookups =>
          /\ dst = 3 * (i * Width(image) + j)
          /\ dst <= 3 * PixelCount
          /\ \A k \in 0 .. 3 * PixelCount - 1 :
                WriteCount(mem, k) = IF k < dst THEN 1 ELSE 0
          /\ \A n \in 0 .. Written - 1 :
                BytesAt(n) \in PixelBytes(ProcessColor(
                    Ref(image, RowOf(n), ColOf(n)), exposure, gamma, Lmax, p, q))
          /\ pc = "returned" => dst = 3 * PixelCount

\* process(grid) has returned: six pixels in two rows of three.
C4_Witness ==
    /\ pc = "returned" /\ image = "grid"
    /\ dst = 18
    /\ BytesAt(3) # BytesAt(1)

------------------------------------------------------------------------------
C5_State ==
    /\ DOMAIN parameters \in {{"Gamma", "p", "q"}, {"Gamma", "p", "q", "Lmax"}}
    /\ lastSet = "none" => DOMAIN parameters = {"Gamma", "p", "q"}
    /\ parameters["Gamma"] =
          [value |-> 2200000, min |-> 0, max |-> 10 * Unit, uniform |-> "gamma",
           constant |-> FALSE]
    /\ parameters["p"] =
          [value |-> Unit, min |-> 0, max |-> 20 * Unit, uniform |-> "p",
           constant |-> FALSE]
    /\ parameters["q"] =
          [value |-> Unit, min |-> 0, max |-> 20 * Unit, uniform |-> "q",
           constant |-> FALSE]

C5_Step ==
    parameters' # parameters =>
        /\ lastSet' # "none"
        /\ UNCHANGED <<procVars, graphCall>>
        /\ \A k \in DOMAIN parameters \ {"Lmax"} :
              k \in DOMAIN parameters' /\ parameters'[k] = parameters[k]

\* C5: the constructor leaves exactly Gamma (2.2 in [0,10]), p (1 in [0,20])
\* and q (1 in [0,20]); these three entries never change; a step that
\* changes the mapping is a setParameters call, changes only "Lmax" and is
\* no step of process or graph.
C5_ParametersFrame == []C5_State /\ [][C5_Step]_vars

\* All three operations have run: setParameters, a process call to its end
\* and a successful graph call.
C5_Witness ==
    /\ pc = "returned" /\ PixelCount > 0
    /\ graphCall.status = "ok"
    /\ "Lmax" \in DOMAIN parameters
    /\ parameters["Gamma"].value = 2200000

------------------------------------------------------------------------------
\* The byte of channel ch of a pixel, by the steps in the order claimed:
\* Ld from the pixel's luminance, colour * Ld / Lw, clamp, gamma, truncation.
C6_Byte(color, ch) ==
    LET Lw        == Luminance(color)
        Ld        == map(Lw, exposure, Lmax, p, q)
        scaled    == Div(Mul(Ld, color[ch]), Lw)
        clamped   == IF scaled > Unit THEN Unit ELSE scaled
        corrected == Pow(clamped, Div(Unit, gamma))
    IN  (255 * corrected) \div Unit

\* C6: every written pixel with Lw > 0 and q*exposure*Lmax > 0 holds, per
\* channel, trunc(255 * clamp(Ld*channel/Lw)^(1/Gamma)), a value in 0..255;
\* for the image pair at exposure 1 with Lmax = 2 the bytes of the first
\* pixel are 206, 206, 206.
C6_PixelPipeline ==
    PastLookups =>
        /\ \A n \in 0 .. Written - 1 :
              LET color == Ref(image, RowOf(n), ColOf(n))
              IN  (Luminance(color) > 0 /\ Mul(Mul(q, exposure), Lmax) > 0) =>
                      \A ch \in 1 .. 3 :
                          /\ BytesAt(n)[ch] = C6_Byte(color, ch)
                          /\ BytesAt(n)[ch] \in 0 .. 255
        /\ (image = "pair" /\ exposure = Unit /\ Lmax = 2 * Unit /\ Written >= 1) =>
              BytesAt(0) = <<206, 206, 206>>

\* process(pair) at exposure 1 after setParameters(pair) has returned.
C6_Witness ==
    /\ pc = "returned" /\ image = "pair"
    /\ exposure = Unit /\ Lmax = 2 * Unit
    /\ BytesAt(0) = <<206, 206, 206>>
    /\ BytesAt(1) = <<255, 255, 255>>

------------------------------------------------------------------------------
C7_Defined ==
    /\ gpuCall.status = "ok"
    /\ gpuCall.gamma > 0
    /\ Luminance(gpuCall.texel) > 0
    /\ Mul(Mul(gpuCall.q, gpuCall.exposure), gpuCall.Lmax) > 0

\* C7: for a texel of non-zero luminance, gamma > 0 and a non-zero
\* denominator, the rgb the fragment stage outputs is the colour process
\* computes for that pixel before quantization, under the same exposure,
\* gamma, Lmax, p and q.
C7_ShaderMatchesProcess ==
    C7_Defined =>
        gpuCall.out = ProcessColor(gpuCall.texel, gpuCall.exposure, gpuCall.gamma,
                                   gpuCall.Lmax, gpuCall.p, gpuCall.q)

\* A fragment of a coloured texel at exposure 2 with p = 2, gamma 2.2.
C7_Witness ==
    /\ C7_Defined
    /\ gpuCall.texel = Rgb(3, 0, 1)
    /\ gpuCall.exposure = 2 * Unit
    /\ gpuCall.p = 2 * Unit
    /\ gpuCall.gamma = 2200000
    /\ gpuCall.out[1] = Unit
    /\ gpuCall.out[3] > 0 /\ gpuCall.out[3] < Unit

------------------------------------------------------------------------------
\* C8: a successful graph call returns map(value, 1, Lmax, p, q) clamped to
\* [0,1] and then raised to 1/Gamma; with Gamma > 0 and q*Lmax > 0 the
\* result lies in [0,1].
C8_GraphClampedThenGamma ==
    graphCall.status = "ok" =>
        LET mapped  == map(graphCall.value, Unit, graphCall.Lmax, graphCall.p,
                           graphCall.q)
            clamped == IF IsNaN(mapped) THEN NaN
                       ELSE IF IsInf(mapped) \/ mapped > Unit THEN Unit
                       ELSE mapped
        IN  /\ graphCall.result = Pow(clamped, Div(Unit, graphCall.gamma))
            /\ (graphCall.gamma > 0 /\ Mul(graphCall.q, graphCall.Lmax) > 0) =>
                  (0 <= graphCall.result /\ graphCall.result <= Unit)

\* A graph call whose mapped value exceeds 1, so the clamp decides.
C8_Witness ==
    /\ graphCall.status = "ok"
    /\ graphCall.gamma = 2200000
    /\ Mul(graphCall.q, graphCall.Lmax) > 0
    /\ map(graphCall.value, Unit, graphCall.Lmax, graphCall.p, graphCall.q) > Unit
    /\ graphCall.result = Unit

------------------------------------------------------------------------------
\* C9: in and after a process call on an image with W*H = 0, delta is
\* 1/0 = +Inf, no byte is written, dst does not move and progress stays 0,
\* also when the call has returned.
C9_EmptyImage ==
    (image # "none" /\ PixelCount = 0) =>
        /\ delta = F32Inf
        /\ progress = F32Zero
        /\ mem = <<>>
        /\ dst = 0

\* process on the 0 x 2 image has returned, all parameters present.
C9_Witness ==
    /\ pc = "returned" /\ image = "emptyW"
    /\ i = Height("emptyW")
    /\ progress = F32Zero

------------------------------------------------------------------------------
\* C10 as claimed: the Lmax a call maps its pixels with is the one the
\* mapping held when the call began, whatever setParameters call
\* interleaves with it.
C10_UnaffectedFromCallStart ==
    pc \in {"at_p", "at_q", "loop", "returned"} =>
        /\ beganWith # "none"
        /\ Lmax = GetMaximumLuminance(beganWith)

C10_State ==
    PastLookups =>
        \A n \in 0 .. Written - 1 :
            BytesAt(n) \in PixelBytes(ProcessColor(
                Ref(image, RowOf(n), ColOf(n)), exposure, gamma, Lmax, p, q))

C10_Step ==
    /\ (pc = "loop" /\ pc' \in {"loop", "returned"}) =>
          UNCHANGED <<gamma, Lmax, p, q>>
    /\ (pc \in {"at_Gamma", "at_Lmax", "at_p", "at_q"} /\ pc' = After(pc)) =>
          /\ gamma' = IF pc = "at_Gamma" THEN parameters["Gamma"].value ELSE gamma
          /\ Lmax' = IF pc = "at_Lmax" THEN parameters["Lmax"].value ELSE Lmax
          /\ p' = IF pc = "at_p" THEN parameters["p"].value ELSE p
          /\ q' = IF pc = "at_q" THEN parameters["q"].value ELSE q

\* C10, amended: each of the four values is read once, at its lookup before
\* the loop, as the mapping holds it then; from the loop's start on they do
\* not change and every byte of the call is computed from them, whatever
\* setParameters calls interleave after the lookups.
C10_ReadOnceBeforeLoop == []C10_State /\ [][C10_Step]_vars

\* A call that has returned while the mapping already holds another Lmax,
\* with the output the old value gives and not the one the new value gives.
C10_Witness ==
    /\ pc = "returned" /\ PixelCount > 0
    /\ parameters["Lmax"].value # Lmax
    /\ BytesAt(0) \notin PixelBytes(ProcessColor(
           Ref(image, 0, 0), exposure, gamma, parameters["Lmax"].value, p, q))
=============================================================================
